---- MODULE Spec2Model ----
(***************************************************************************)
(* Forbes-Selfie server (src/server.js): the in-memory record store, the   *)
(* status heuristic, the ephemeral blob stores and the symmetric codec.    *)
(* Time is counted in minutes; every request is one atomic step (one       *)
(* event-loop turn of the single-threaded runtime).                        *)
(***************************************************************************)
EXTENDS Integers, Sequences, FiniteSets, TLC

VARIABLES
    selfieRecords,   \* let selfieRecords = []   (server.js:21)
    statusRecords,   \* let statusRecords = {}   (server.js:22), own properties
    dataStorage,     \* let dataStorage = {}     (server.js:23), own properties
    sessionStorage,  \* let sessionStorage = {}  (server.js:24), own properties
    objectCtor,      \* properties written onto the inherited Object function
    now,             \* Date.now(), in minutes
    seed,            \* state of the Math.random() generator
    res,             \* the last response sent, with the parameter it answers
    savedLog,        \* history: every record save-selfie has pushed, in order
    polled,          \* history: per code, the check-status requests answered
                     \* success:true since the code's last save-selfie
    ENCRYPTION_KEY,  \* process.env.ENCRYPTION_KEY || default (server.js:18)
    NODE_ENV,        \* process.env.NODE_ENV (server.js:1588)
    limit            \* the bounds this run explores under

vars == <<selfieRecords, statusRecords, dataStorage, sessionStorage, objectCtor,
          now, seed, res, savedLog, polled, ENCRYPTION_KEY, NODE_ENV, limit>>

stores == <<selfieRecords, statusRecords, dataStorage, sessionStorage>>

----------------------------------------------------------------------------
(* Bounds of the model *)

MaxSaves == 2
MaxPolls == 9
MaxOps == 4

MaxData == 2
MaxSessions == 2
MaxPushed == 3

CapSlack == 2

\* polls of the first code in the run that evicts its record
EvictPolls == 1

\* polls of one code in the runs that follow a single client
MaxLongPolls == 11
MaxDataOps == 5

\* no bound on the number of requests
Unbounded == 0 - 1

\* the instants at which requests arrive, in minutes
DataTimes == {0, 1, 2, 3, 60, 61}

SessionTimes == {0, 30, 31, 1440, 1441}

\* one instant past the elapsed-minutes ladder, past the hour and past the day
LateTimes == {3, 61, 1441}

\* an instant past every threshold of the elapsed-minutes ladder
LadderTimes == {3}

(* Program constants *)

MaxRecords == 1000
OneHour == 60
SessionTTL == 30
OneDay == 1440
BlockSize == 16
IvLength == 16
KeyLength == 32
MinBlobLength == 32

----------------------------------------------------------------------------
(* JavaScript values *)

\* undefined, for a field holding a status label or another fixed word
UNDEF == "<undefined>"

\* undefined (or NaN), for a number-valued field
NoNum == -1

\* A string that can serve as an identifier: a literal, or a literal prefix
\* followed by a timestamp and random characters in the order the prefix fixes.
Str(s) == [prefix |-> s, rand |-> <<>>, ts |-> 0]

Undefined == Str("<undefined>")

Empty == Str("")

\* Request parameters: a field may be missing, empty, or a non-empty string.
\* "constructor" is a name every plain object inherits from Object.prototype.
Codes == {Str("a"), Str("constructor")}

Params == Codes \cup {Undefined, Empty}

\* the check with the empty string let through
FalsyOnlyMissing(x) == x = Undefined

\* !x for a string-valued parameter
Falsy(x) == x = Undefined \/ x = Empty

\* The names a plain object {} answers without owning them.
ObjectProtoKeys == {Str("constructor")}

----------------------------------------------------------------------------
(* Strings made by Math.random().toString(36) *)

\* one base-36 digit as a character code: 0-9, then a-z
Digit36(d) == IF d < 10 THEN 48 + d ELSE 87 + d

RECURSIVE ToString36(_)
ToString36(n) == IF n = 0 THEN <<>> ELSE Append(ToString36(n \div 36), Digit36(n % 36))

\* String.prototype.toUpperCase on character codes
ToUpperCase(s) == [i \in 1..Len(s) |-> IF s[i] >= 97 /\ s[i] <= 122 THEN s[i] - 32 ELSE s[i]]

\* Math.random().toString(36).substr(2, n): the fraction digits of the draw.
\* The draw 0 prints as "0", whose substr(2) is empty.
RandomChars(s) == ToString36(s)

IsAlnum(c) == (c >= 48 /\ c <= 57) \/ (c >= 65 /\ c <= 90) \/ (c >= 97 /\ c <= 122)

\* prefix + Date.now() + '_' + random
StampedId(prefix, t, s) == [prefix |-> prefix, rand |-> RandomChars(s), ts |-> t]

\* generateId(): 'FS_' + Date.now() + '_' + random
generateId(t, s) == StampedId("FS_", t, s)

\* 'RESULT_' + random.toUpperCase() + '_' + Date.now()
MintResultCode(t, s) == [prefix |-> "RESULT_", rand |-> ToUpperCase(RandomChars(s)), ts |-> t]

----------------------------------------------------------------------------
(* Responses *)

NoBody == [success |-> FALSE, hasMessage |-> FALSE, status |-> UNDEF,
           record_id |-> Undefined, result_code |-> Undefined,
           current_status |-> UNDEF, attempts |-> NoNum, page |-> UNDEF,
           text |-> <<>>, iv |-> <<>>, encrypted |-> <<>>, decrypted |-> <<>>,
           encryption_works |-> FALSE, error |-> UNDEF]

\* A response, with the endpoint and the parameter it answers (arg2: the
\* second required field, where the endpoint has one; raised: an exception
\* reached a catch block of the handler or the error middleware)
Response(op, arg, http, body) ==
    [op |-> op, arg |-> arg, arg2 |-> Undefined, http |-> http, body |-> body,
     raised |-> FALSE]

\* res.status(400).json({ success: false, message })
BadRequest(op, arg) == Response(op, arg, 400, [NoBody EXCEPT !.hasMessage = TRUE])

\* res.status(400).send(<html>)
BadRequestPage(op, arg) == Response(op, arg, 400, [NoBody EXCEPT !.page = "error"])

NoResponse == Response("none", Undefined, 0, NoBody)

\* the text of the exception, e.message
ExceptionMessage == "e.message"

\* the catch block of a handler:
\* res.status(500).json({ success: false, message, error: e.message })
Caught(op, arg) ==
    [Response(op, arg, 500, [NoBody EXCEPT !.hasMessage = TRUE,
                                           !.error = ExceptionMessage])
     EXCEPT !.raised = TRUE]

\* the error middleware: res.status(500).json({ success: false, message,
\* error: NODE_ENV === 'production' ? 'Contact administrator' : err.message })
ErrorMiddleware(op, arg, env) ==
    [Response(op, arg, 500,
              [NoBody EXCEPT !.hasMessage = TRUE,
                             !.error = IF env = "production" THEN "Contact administrator"
                                       ELSE ExceptionMessage])
     EXCEPT !.raised = TRUE]

----------------------------------------------------------------------------
(* Property lookup on the plain-object maps *)

\* The Object function as Object.prototype.constructor hands it out; the
\* handlers may write properties onto it.
ObjectCtorInit == [status |-> UNDEF, attempts |-> NoNum, result_code |-> Undefined,
                   created_at |-> NoNum]

\* map[key] is truthy
HasProp(map, key) == key \in DOMAIN map \/ key \in ObjectProtoKeys

\* map[key], given that it is truthy
GetProp(map, key, ctor) == IF key \in DOMAIN map THEN map[key] ELSE ctor

\* the assignment that leaves an existing property as it is
SetPropKeepFirst(map, key, value) ==
    [k \in DOMAIN map \cup {key} |-> IF k \in DOMAIN map THEN map[k] ELSE value]

\* a map that holds the last key written only
SetPropOnlyLatest(map, key, value) == [k \in {key} |-> value]

\* map[key] = value
SetProp(map, key, value) == [k \in DOMAIN map \cup {key} |-> IF k = key THEN value ELSE map[k]]

\* delete map[key], for every key in keys
DeleteProps(map, keys) == [k \in DOMAIN map \ keys |-> map[k]]

----------------------------------------------------------------------------
(* Strings as sequences of code points, buffers as sequences of bytes *)

RECURSIVE Flatten(_)
Flatten(ss) == IF ss = <<>> THEN <<>> ELSE Head(ss) \o Flatten(Tail(ss))

\* Buffer.from(text, 'utf8'), for code points of the basic plane
Utf8Char(c) ==
    IF c < 128 THEN <<c>>
    ELSE IF c < 2048 THEN <<192 + (c \div 64), 128 + (c % 64)>>
    ELSE <<224 + (c \div 4096), 128 + ((c \div 64) % 64), 128 + (c % 64)>>

Utf8Encode(text) == Flatten([i \in 1..Len(text) |-> Utf8Char(text[i])])

IsCont(b) == b >= 128 /\ b < 192

\* buf.toString('utf8'): an ill-formed byte decodes to U+FFFD
RECURSIVE Utf8Decode(_)
Utf8Decode(buf) ==
    IF buf = <<>> THEN <<>>
    ELSE LET b == buf[1]
             n == Len(buf)
         IN  IF b < 128 THEN <<b>> \o Utf8Decode(Tail(buf))
             ELSE IF b >= 194 /\ b < 224 /\ n >= 2 /\ IsCont(buf[2])
             THEN <<(b - 192) * 64 + (buf[2] - 128)>> \o Utf8Decode(SubSeq(buf, 3, n))
             ELSE IF b >= 224 /\ b < 240 /\ n >= 3 /\ IsCont(buf[2]) /\ IsCont(buf[3])
                     /\ (b - 224) * 4096 + (buf[2] - 128) * 64 + (buf[3] - 128) >= 2048
             THEN <<(b - 224) * 4096 + (buf[2] - 128) * 64 + (buf[3] - 128)>>
                  \o Utf8Decode(SubSeq(buf, 4, n))
             ELSE <<65533>> \o Utf8Decode(Tail(buf))

----------------------------------------------------------------------------
(* base64 *)

\* the character of a six-bit value: A-Z, a-z, 0-9, +, /
B64Char(v) ==
    IF v < 26 THEN 65 + v
    ELSE IF v < 52 THEN 71 + v
    ELSE IF v < 62 THEN v - 4
    ELSE IF v = 62 THEN 43 ELSE 47

B64Pad == 61

\* the six-bit value of a character, or NoNum for a character outside the alphabet
B64Value(c) ==
    IF c >= 65 /\ c <= 90 THEN c - 65
    ELSE IF c >= 97 /\ c <= 122 THEN c - 71
    ELSE IF c >= 48 /\ c <= 57 THEN c + 4
    ELSE IF c = 43 THEN 62
    ELSE IF c = 47 THEN 63
    ELSE NoNum

\* buf.toString('base64')
RECURSIVE Base64Encode(_)
Base64Encode(buf) ==
    LET n == Len(buf)
    IN  IF n = 0 THEN <<>>
        ELSE IF n = 1
        THEN <<B64Char(buf[1] \div 4), B64Char((buf[1] % 4) * 16), B64Pad, B64Pad>>
        ELSE IF n = 2
        THEN <<B64Char(buf[1] \div 4), B64Char((buf[1] % 4) * 16 + (buf[2] \div 16)),
               B64Char((buf[2] % 16) * 4), B64Pad>>
        ELSE <<B64Char(buf[1] \div 4), B64Char((buf[1] % 4) * 16 + (buf[2] \div 16)),
               B64Char((buf[2] % 16) * 4 + (buf[3] \div 64)), B64Char(buf[3] % 64)>>
             \o Base64Encode(SubSeq(buf, 4, n))

\* the six-bit values of a base64 string: it ends at the first '=', and
\* characters outside the alphabet are skipped
RECURSIVE B64Values(_)
B64Values(str) ==
    IF str = <<>> \/ str[1] = B64Pad THEN <<>>
    ELSE IF B64Value(str[1]) = NoNum THEN B64Values(Tail(str))
    ELSE <<B64Value(str[1])>> \o B64Values(Tail(str))

RECURSIVE B64Bytes(_)
B64Bytes(v) ==
    LET n == Len(v)
    IN  IF n < 2 THEN <<>>
        ELSE IF n = 2 THEN <<v[1] * 4 + (v[2] \div 16)>>
        ELSE IF n = 3 THEN <<v[1] * 4 + (v[2] \div 16), (v[2] % 16) * 16 + (v[3] \div 4)>>
        ELSE <<v[1] * 4 + (v[2] \div 16), (v[2] % 16) * 16 + (v[3] \div 4),
               (v[3] % 4) * 64 + v[4]>> \o B64Bytes(SubSeq(v, 5, n))

\* Buffer.from(b64, 'base64')
Base64Decode(str) == B64Bytes(B64Values(str))

----------------------------------------------------------------------------
(* aes-256-cbc *)

RECURSIVE XorBits(_, _, _)
XorBits(a, b, n) ==
    IF n = 0 THEN 0
    ELSE (((a % 2) + (b % 2)) % 2) + 2 * XorBits(a \div 2, b \div 2, n - 1)

XorBlock(x, y) == [i \in 1..BlockSize |-> XorBits(x[i], y[i], 8)]

\* The block cipher, as a bijection on blocks that the key selects: the bytes
\* rotate by one place and each takes up two bytes of the key.
EncryptBlock(key, b) ==
    [i \in 1..BlockSize |-> (b[(i % BlockSize) + 1] + key[i] + key[i + BlockSize]) % 256]

DecryptBlock(key, c) ==
    [j \in 1..BlockSize |->
        LET i == ((j + BlockSize - 2) % BlockSize) + 1
        IN  (c[i] + 512 - key[i] - key[i + BlockSize]) % 256]

\* PKCS#7: cipher.final() pads up to the next whole block
Pkcs7Pad(buf) ==
    LET n == BlockSize - (Len(buf) % BlockSize)
    IN  buf \o [i \in 1..n |-> n]

\* decipher.final() accepts the padding
Pkcs7Ok(buf) ==
    /\ Len(buf) > 0
    /\ Len(buf) % BlockSize = 0
    /\ LET n == buf[Len(buf)]
       IN  /\ n >= 1
           /\ n <= BlockSize
           /\ \A i \in (Len(buf) - n + 1)..Len(buf) : buf[i] = n

Pkcs7Unpad(buf) == SubSeq(buf, 1, Len(buf) - buf[Len(buf)])

RECURSIVE CbcEncrypt(_, _, _)
CbcEncrypt(key, prev, buf) ==
    IF buf = <<>> THEN <<>>
    ELSE LET c == EncryptBlock(key, XorBlock(SubSeq(buf, 1, BlockSize), prev))
         IN  c \o CbcEncrypt(key, c, SubSeq(buf, BlockSize + 1, Len(buf)))

RECURSIVE CbcDecrypt(_, _, _)
CbcDecrypt(key, prev, buf) ==
    IF Len(buf) < BlockSize THEN <<>>
    ELSE LET c == SubSeq(buf, 1, BlockSize)
         IN  XorBlock(DecryptBlock(key, c), prev)
             \o CbcDecrypt(key, c, SubSeq(buf, BlockSize + 1, Len(buf)))

\* Buffer.from(ENCRYPTION_KEY.padEnd(32).slice(0, 32))
DeriveKey(passphrase) ==
    LET padded == passphrase \o [i \in 1..(KeyLength - Len(passphrase)) |-> 32]
    IN  Utf8Encode(SubSeq(padded, 1, KeyLength))

\* createCipheriv / createDecipheriv accept the key
KeyOk(key) == Len(key) = KeyLength

\* null, as decryptData returns it
Null == <<NoNum>>

\* the JSON number 5: a value that is neither a string nor a buffer
Number5 == <<NoNum, 5>>

\* no value: an exception leaves the function
Thrown == <<NoNum, NoNum>>

IsString(x) == \A i \in 1..Len(x) : x[i] >= 0

\* cipher.update(text, 'utf8') rejects a value that is no string, and so does
\* the Buffer.from(text) of the catch block, whose exception nothing catches
encryptData(text, iv, passphrase) ==
    LET key == DeriveKey(passphrase)
    IN  IF ~IsString(text) THEN Thrown
        ELSE IF KeyOk(key)
        THEN Base64Encode(iv \o CbcEncrypt(key, iv, Pkcs7Pad(Utf8Encode(text))))
        ELSE Base64Encode(Utf8Encode(text))

\* decryptData without its catch block
decryptDataNoCatch(b64, passphrase) ==
    IF b64 = Null \/ b64 = <<>> THEN Null
    ELSE LET buf == Base64Decode(b64)
             key == DeriveKey(passphrase)
         IN  IF Len(buf) < MinBlobLength \/ ~KeyOk(key) THEN Thrown
             ELSE LET iv == SubSeq(buf, 1, IvLength)
                      data == SubSeq(buf, IvLength + 1, Len(buf))
                      out == CbcDecrypt(key, iv, data)
                  IN  IF Len(data) % BlockSize # 0 \/ ~Pkcs7Ok(out) THEN Thrown
                      ELSE Utf8Decode(Pkcs7Unpad(out))

decryptData(b64, passphrase) ==
    IF b64 = Null \/ b64 = <<>> THEN Null
    ELSE LET buf == Base64Decode(b64)
             key == DeriveKey(passphrase)
         IN  IF Len(buf) < MinBlobLength \/ ~KeyOk(key) THEN b64
             ELSE LET iv == SubSeq(buf, 1, IvLength)
                      data == SubSeq(buf, IvLength + 1, Len(buf))
                      out == CbcDecrypt(key, iv, data)
                  IN  IF Len(data) % BlockSize # 0 \/ ~Pkcs7Ok(out) THEN b64
                      ELSE Utf8Decode(Pkcs7Unpad(out))

----------------------------------------------------------------------------
(* The inputs of the codec *)

\* process.env.ENCRYPTION_KEY || 'FORBES_SELFIE_KEY_2024_SECRET'
DefaultKey == <<70, 79, 82, 66, 69, 83, 95, 83, 69, 76, 70, 73, 69, 95, 75, 69, 89, 95, 50, 48, 50, 52, 95, 83, 69, 67, 82, 69, 84>>

\* passphrases an operator may configure: the default, one longer than the
\* cipher key, one with a character outside ASCII
Passphrases == {DefaultKey, <<48, 49, 50, 51, 52, 53, 54, 55, 56, 57, 97, 98, 99, 100, 101, 102, 103, 104, 105, 106, 107, 108, 109, 110, 111, 112, 113, 114, 115, 116, 117, 118, 119, 120, 121, 122>>, <<99, 108, 233>>}

\* '123456,789012'
DebugPlain == <<49, 50, 51, 52, 53, 54, 44, 55, 56, 57, 48, 49, 50>>

\* printable texts: empty, one character, characters of two and three bytes,
\* one byte short of a block, a whole block, the debug text
Texts == {<<>>, <<65>>, <<233, 8364>>, [i \in 1..15 |-> 96 + i],
          [i \in 1..16 |-> 64 + i], DebugPlain}

\* crypto.randomBytes(16)
ZeroIv == [i \in 1..IvLength |-> 0]

IVs == {ZeroIv, [i \in 1..IvLength |-> 16 * i - 1], [i \in 1..IvLength |-> 255]}

\* what decryptData may be handed: nothing, the empty string, text that is
\* not base64, payloads of 31 and of 35 bytes, a block encrypted without its
\* padding, and the blobs encryptData makes under each passphrase
Blobs ==
    {Null, <<>>, <<104, 101, 108, 108, 111, 33>>,
     Base64Encode([i \in 1..(MinBlobLength - 1) |-> i]),
     Base64Encode([i \in 1..(MinBlobLength + 3) |-> i]),
     Base64Encode(ZeroIv \o CbcEncrypt(DeriveKey(DefaultKey), ZeroIv,
                                       [i \in 1..BlockSize |-> 0]))}
    \cup {encryptData(t, iv, k) : t \in Texts, iv \in IVs, k \in Passphrases}

----------------------------------------------------------------------------
(* What every step shares: it counts against the bound on the number of     *)
(* requests of the run (a negative count is no bound) and leaves the         *)
(* process environment as it was read at start-up.                           *)

Spend ==
    /\ limit.ops # 0
    /\ limit' = [limit EXCEPT !.ops = IF @ > 0 THEN @ - 1 ELSE @]
    /\ UNCHANGED <<ENCRYPTION_KEY, NODE_ENV>>

----------------------------------------------------------------------------
(* POST /api/save-selfie *)

NewRecord(id, selfie_code, encrypted_code, t) ==
    [id |-> id, selfie_code |-> selfie_code, encrypted_code |-> encrypted_code,
     source |-> "forbes_extension", status |-> "pending", result_code |-> Undefined,
     created_at |-> t, updated_at |-> t]

NewStatus(t) == [status |-> "pending", attempts |-> 0, result_code |-> Undefined, created_at |-> t]

\* the cap keeping the oldest records instead of the newest
CapRecordsKeepOldest(recs) ==
    IF Len(recs) > MaxRecords THEN SubSeq(recs, 1, MaxRecords) ELSE recs

\* if (selfieRecords.length > 1000) selfieRecords = selfieRecords.slice(-1000)
CapRecords(recs) ==
    IF Len(recs) > MaxRecords
    THEN SubSeq(recs, Len(recs) - MaxRecords + 1, Len(recs))
    ELSE recs

SaveSelfie(selfie_code, encrypted_code) ==
    /\ Spend
    /\ IF Falsy(selfie_code) \/ Falsy(encrypted_code)
       THEN /\ res' = [BadRequest("save-selfie", selfie_code) EXCEPT !.arg2 = encrypted_code]
            /\ UNCHANGED <<stores, objectCtor, seed, savedLog, polled>>
       ELSE LET id == generateId(now, seed)
                record == NewRecord(id, selfie_code, encrypted_code, now)
            IN  /\ Len(savedLog) < limit.saves
                /\ selfieRecords' = CapRecords(Append(selfieRecords, record))
                /\ statusRecords' = SetProp(statusRecords, selfie_code, NewStatus(now))
                /\ savedLog' = Append(savedLog, record)
                /\ polled' = SetProp(polled, selfie_code, 0)
                /\ seed' = seed + 1
                /\ res' = [Response("save-selfie", selfie_code, 200,
                               [NoBody EXCEPT !.success = TRUE, !.hasMessage = TRUE,
                                              !.record_id = id])
                           EXCEPT !.arg2 = encrypted_code]
                /\ UNCHANGED <<dataStorage, sessionStorage, objectCtor>>
    /\ UNCHANGED now

----------------------------------------------------------------------------
(* GET /api/check-status *)

\* the ladder without its final else
StatusOfNoFailed(attempts) ==
    IF attempts < 3 THEN "processing"
    ELSE IF attempts < 6 THEN "ready"
    ELSE IF attempts < 9 THEN "completed"
    ELSE UNDEF

\* the ladder without its completed rung
StatusOfSkipsCompleted(attempts) ==
    IF attempts < 3 THEN "processing"
    ELSE IF attempts < 9 THEN "ready"
    ELSE "failed"

\* the ladder starting over after the ninth poll
StatusOfCycling(attempts) ==
    IF attempts % 9 < 3 THEN "processing"
    ELSE IF attempts % 9 < 6 THEN "ready"
    ELSE IF attempts < 9 THEN "completed"
    ELSE "failed"

\* the ladder with its first rung one poll longer
StatusOfLongFirstRung(attempts) ==
    IF attempts < 4 THEN "processing"
    ELSE IF attempts < 6 THEN "ready"
    ELSE IF attempts < 9 THEN "completed"
    ELSE "failed"

\* the status a poll count maps to
StatusOf(attempts) ==
    IF attempts < 3 THEN "processing"
    ELSE IF attempts < 6 THEN "ready"
    ELSE IF attempts < 9 THEN "completed"
    ELSE "failed"

\* the poll that forgets to mint the result code
AdvanceNoMint(st, t, s) ==
    LET n == (IF st.attempts = NoNum THEN 0 ELSE st.attempts) + 1
    IN  [st EXCEPT !.attempts = n, !.status = StatusOf(n)]

\* the poll whose increment is lost when one poll has been counted
AdvanceLostPoll(st, t, s) ==
    LET n == IF st.attempts = 1 THEN 1
             ELSE (IF st.attempts = NoNum THEN 0 ELSE st.attempts) + 1
    IN  [st EXCEPT !.attempts = n,
                   !.status = StatusOf(n),
                   !.result_code = IF StatusOf(n) = "completed" /\ st.result_code = Undefined
                                   THEN MintResultCode(t, s)
                                   ELSE st.result_code]

\* st.attempts = (st.attempts || 0) + 1, then the status ladder
\* a poll that mints a result code whenever it yields completed
AdvanceRemint(st, t, s) ==
    LET n == (IF st.attempts = NoNum THEN 0 ELSE st.attempts) + 1
    IN  [st EXCEPT !.attempts = n,
                   !.status = StatusOf(n),
                   !.result_code = IF StatusOf(n) = "completed"
                                   THEN MintResultCode(t, s)
                                   ELSE st.result_code]

Advance(st, t, s) ==
    LET n == (IF st.attempts = NoNum THEN 0 ELSE st.attempts) + 1
    IN  [st EXCEPT !.attempts = n,
                   !.status = StatusOf(n),
                   !.result_code = IF StatusOf(n) = "completed" /\ st.result_code = Undefined
                                   THEN MintResultCode(t, s)
                                   ELSE st.result_code]

CheckStatus(selfie_code) ==
    /\ Spend
    /\ IF Falsy(selfie_code)
       THEN /\ res' = BadRequest("check-status", selfie_code)
            /\ UNCHANGED <<statusRecords, objectCtor, seed, polled>>
       ELSE IF ~HasProp(statusRecords, selfie_code)
       THEN /\ res' = Response("check-status", selfie_code, 200,
                          [NoBody EXCEPT !.hasMessage = TRUE, !.status = "not_found"])
            /\ UNCHANGED <<statusRecords, objectCtor, seed, polled>>
       ELSE LET old == GetProp(statusRecords, selfie_code, objectCtor)
                st == Advance(old, now, seed)
            IN  /\ (IF old.attempts = NoNum THEN 0 ELSE old.attempts) < limit.polls
                /\ IF selfie_code \in DOMAIN statusRecords
                   THEN /\ statusRecords' = [statusRecords EXCEPT ![selfie_code] = st]
                        /\ UNCHANGED objectCtor
                   ELSE /\ objectCtor' = st
                        /\ UNCHANGED statusRecords
                /\ seed' = IF st.result_code # old.result_code THEN seed + 1 ELSE seed
                /\ polled' = SetProp(polled, selfie_code,
                                     (IF selfie_code \in DOMAIN polled
                                      THEN polled[selfie_code] ELSE 0) + 1)
                /\ res' = Response("check-status", selfie_code, 200,
                              [NoBody EXCEPT !.success = TRUE, !.status = st.status,
                                             !.attempts = st.attempts,
                                             !.result_code = st.result_code])
    /\ UNCHANGED <<selfieRecords, dataStorage, sessionStorage, now, savedLog>>

----------------------------------------------------------------------------
(* GET /api/get-result *)

\* a get-result that drops the entry it has read
GetResultConsuming(selfie_code) ==
    /\ Spend
    /\ res' = Response("get-result", selfie_code, 200, [NoBody EXCEPT !.hasMessage = TRUE])
    /\ statusRecords' = DeleteProps(statusRecords, {selfie_code})
    /\ UNCHANGED <<selfieRecords, dataStorage, sessionStorage, objectCtor, now, seed,
                   savedLog, polled>>

GetResult(selfie_code) ==
    /\ Spend
    /\ IF Falsy(selfie_code)
       THEN res' = BadRequest("get-result", selfie_code)
       ELSE IF ~HasProp(statusRecords, selfie_code)
       THEN res' = Response("get-result", selfie_code, 200, [NoBody EXCEPT !.hasMessage = TRUE])
       ELSE LET st == GetProp(statusRecords, selfie_code, objectCtor)
            IN  IF st.status # "completed"
                THEN res' = Response("get-result", selfie_code, 200,
                                [NoBody EXCEPT !.hasMessage = TRUE,
                                               !.current_status = st.status])
                ELSE res' = Response("get-result", selfie_code, 200,
                                [NoBody EXCEPT !.success = TRUE, !.status = st.status,
                                               !.attempts = st.attempts,
                                               !.result_code = st.result_code])
    /\ UNCHANGED <<stores, objectCtor, now, seed, savedLog, polled>>

----------------------------------------------------------------------------
(* POST /api/store-data, POST /api/store-liveness-data, GET /open-bls *)

\* An entry of dataStorage. The Object function read as an entry has none of
\* the fields.
DataEntry(selfie_code, hasForm, source, t) ==
    [data_selfie_code |-> selfie_code, hasFormData |-> hasForm, source |-> source,
     stored_at |-> t]

CtorAsData == DataEntry(Undefined, FALSE, UNDEF, NoNum)

\* the keys the store-data sweep deletes: stored_at < Date.now() - one hour
StaleData(map, t) == {k \in DOMAIN map : map[k].stored_at < t - OneHour}

StoreData(data, data_selfie_code) ==
    /\ Spend
    /\ IF Falsy(data)
       THEN /\ res' = BadRequest("store-data", data)
            /\ UNCHANGED <<dataStorage, seed>>
       ELSE LET storageId == StampedId("FS_STORE_", now, seed)
                stored == SetProp(dataStorage, storageId,
                                  DataEntry(data_selfie_code, FALSE, "unknown", now))
            IN  /\ Cardinality(DOMAIN dataStorage) < limit.data
                /\ dataStorage' = DeleteProps(stored, StaleData(stored, now))
                /\ seed' = seed + 1
                /\ res' = Response("store-data", storageId, 200,
                              [NoBody EXCEPT !.success = TRUE, !.hasMessage = TRUE])
    /\ UNCHANGED <<selfieRecords, statusRecords, sessionStorage, objectCtor, now, savedLog, polled>>

StoreLivenessData(form_data) ==
    /\ Spend
    /\ IF Falsy(form_data)
       THEN /\ res' = BadRequest("store-liveness-data", form_data)
            /\ UNCHANGED <<dataStorage, seed>>
       ELSE LET dataId == StampedId("LIV_", now, seed)
            IN  /\ Cardinality(DOMAIN dataStorage) < limit.data
                /\ dataStorage' = SetProp(dataStorage, dataId,
                                          DataEntry(Undefined, TRUE, UNDEF, now))
                /\ seed' = seed + 1
                /\ res' = Response("store-liveness-data", dataId, 200,
                              [NoBody EXCEPT !.success = TRUE, !.hasMessage = TRUE])
    /\ UNCHANGED <<selfieRecords, statusRecords, sessionStorage, objectCtor, now, savedLog, polled>>

OpenBls(data) ==
    /\ Spend
    /\ IF ~Falsy(data) /\ ~HasProp(dataStorage, data)
       THEN /\ Cardinality(DOMAIN dataStorage) < limit.data
            /\ dataStorage' = SetProp(dataStorage, data,
                                      DataEntry(Undefined, FALSE, UNDEF, now))
       ELSE UNCHANGED dataStorage
    /\ res' = Response("open-bls", data, 200, [NoBody EXCEPT !.page = "bls"])
    /\ UNCHANGED <<selfieRecords, statusRecords, sessionStorage, objectCtor, now, seed,
                   savedLog, polled>>

----------------------------------------------------------------------------
(* GET /direct-liveness *)

DirectLiveness(data_id) ==
    /\ Spend
    /\ IF Falsy(data_id)
       THEN res' = BadRequestPage("direct-liveness", data_id)
       ELSE IF ~HasProp(dataStorage, data_id)
               \/ ~GetProp(dataStorage, data_id, CtorAsData).hasFormData
       THEN res' = Response("direct-liveness", data_id, 200,
                       [NoBody EXCEPT !.page = "not_found"])
       ELSE res' = Response("direct-liveness", data_id, 200,
                       [NoBody EXCEPT !.page = "form"])
    /\ UNCHANGED <<stores, objectCtor, now, seed, savedLog, polled>>

----------------------------------------------------------------------------
(* GET /api/check-selfie-status *)

\* the ladder completing only after the third minute is over
StatusByAgeLate(since, t) ==
    IF since = NoNum THEN "completed"
    ELSE IF t - since < 1 THEN "not_started"
    ELSE IF t - since < 2 THEN "processing"
    ELSE IF t - since <= 3 THEN "pending"
    ELSE "completed"

\* the label the elapsed minutes map to; a NaN age fails every comparison
StatusByAge(since, t) ==
    IF since = NoNum THEN "completed"
    ELSE IF t - since < 1 THEN "not_started"
    ELSE IF t - since < 2 THEN "processing"
    ELSE IF t - since < 3 THEN "pending"
    ELSE "completed"

\* the index of the newest record of that id or selfie_code from i on, or 0
FindFromNewest(recs, id, i) ==
    LET found == {j \in i..Len(recs) : recs[j].id = id \/ recs[j].selfie_code = id}
    IN  IF found = {} THEN 0 ELSE CHOOSE j \in found : \A k \in found : k <= j

\* selfieRecords.find(r => r.id === id || r.selfie_code === id): its index, or 0
RECURSIVE FindFrom(_, _, _)
FindFrom(recs, id, i) ==
    IF i > Len(recs) THEN 0
    ELSE IF recs[i].id = id \/ recs[i].selfie_code = id THEN i
    ELSE FindFrom(recs, id, i + 1)

FindRecord(recs, id) == FindFrom(recs, id, 1)

\* the record built without its result code
RecordFromStorageNoCode(entry, resultCode, id, t) ==
    [id |-> id,
     selfie_code |-> IF Falsy(entry.data_selfie_code) THEN resultCode
                     ELSE entry.data_selfie_code,
     encrypted_code |-> Str("<encrypted>"),
     source |-> IF entry.source = UNDEF THEN "data_storage" ELSE entry.source,
     status |-> "completed", result_code |-> Undefined,
     created_at |-> entry.stored_at, updated_at |-> t]

\* the record built from a dataStorage entry once it counts as completed
RecordFromStorage(entry, resultCode, id, t) ==
    [id |-> id,
     selfie_code |-> IF Falsy(entry.data_selfie_code) THEN resultCode
                     ELSE entry.data_selfie_code,
     encrypted_code |-> Str("<encrypted>"),
     source |-> IF entry.source = UNDEF THEN "data_storage" ELSE entry.source,
     status |-> "completed", result_code |-> resultCode,
     created_at |-> entry.stored_at, updated_at |-> t]

CheckSelfieStatus(id) ==
    /\ Spend
    /\ IF Falsy(id)
       THEN /\ res' = BadRequest("check-selfie-status", id)
            /\ UNCHANGED <<selfieRecords, seed>>
       ELSE IF ~HasProp(dataStorage, id)
       THEN LET i == FindRecord(selfieRecords, id)
            IN  IF i = 0
                THEN /\ res' = Response("check-selfie-status", id, 200,
                                   [NoBody EXCEPT !.hasMessage = TRUE,
                                                  !.status = "not_found"])
                     /\ UNCHANGED <<selfieRecords, seed>>
                ELSE IF selfieRecords[i].result_code # Undefined
                THEN /\ res' = Response("check-selfie-status", id, 200,
                                   [NoBody EXCEPT !.success = TRUE,
                                                  !.status = "completed",
                                                  !.result_code = selfieRecords[i].result_code])
                     /\ UNCHANGED <<selfieRecords, seed>>
                ELSE IF StatusByAge(selfieRecords[i].created_at, now) # "completed"
                THEN /\ res' = Response("check-selfie-status", id, 200,
                                   [NoBody EXCEPT !.success = TRUE,
                                                  !.status = StatusByAge(selfieRecords[i].created_at, now)])
                     /\ UNCHANGED <<selfieRecords, seed>>
                ELSE LET code == MintResultCode(now, seed)
                     IN  /\ selfieRecords' = [selfieRecords EXCEPT
                                                 ![i].result_code = code,
                                                 ![i].status = "completed",
                                                 ![i].updated_at = now]
                         /\ seed' = seed + 1
                         /\ res' = Response("check-selfie-status", id, 200,
                                       [NoBody EXCEPT !.success = TRUE,
                                                      !.status = "completed",
                                                      !.result_code = code])
       ELSE LET storedData == GetProp(dataStorage, id, CtorAsData)
                label == StatusByAge(storedData.stored_at, now)
            IN  IF label # "completed"
                THEN /\ res' = Response("check-selfie-status", id, 200,
                                   [NoBody EXCEPT !.success = TRUE, !.status = label])
                     /\ UNCHANGED <<selfieRecords, seed>>
                ELSE LET resultCode == MintResultCode(now, seed)
                         record == RecordFromStorage(storedData, resultCode,
                                                     generateId(now, seed + 1), now)
                     IN  /\ Len(selfieRecords) < limit.pushed
                         /\ selfieRecords' = Append(selfieRecords, record)
                         /\ seed' = seed + 2
                         /\ res' = Response("check-selfie-status", id, 200,
                                       [NoBody EXCEPT !.success = TRUE,
                                                      !.status = "completed",
                                                      !.result_code = resultCode])
    /\ UNCHANGED <<statusRecords, dataStorage, sessionStorage, objectCtor, now, savedLog, polled>>

----------------------------------------------------------------------------
(* POST /api/store-session, GET /api/get-session, GET /bls-session *)

SessionEntry(t) == [stored_at |-> t, expires_at |-> t + SessionTTL]

CtorAsSession == [stored_at |-> NoNum, expires_at |-> NoNum]

\* the keys the store-session sweep deletes: stored_at < Date.now() - one day
StaleSessions(map, t) == {k \in DOMAIN map : map[k].stored_at < t - OneDay}

StoreSession(session_data) ==
    /\ Spend
    /\ IF Falsy(session_data)
       THEN /\ res' = BadRequest("store-session", session_data)
            /\ UNCHANGED <<sessionStorage, seed>>
       ELSE LET sessionId == StampedId("SESS_", now, seed)
                stored == SetProp(sessionStorage, sessionId, SessionEntry(now))
            IN  /\ Cardinality(DOMAIN sessionStorage) < MaxSessions
                /\ sessionStorage' = DeleteProps(stored, StaleSessions(stored, now))
                /\ seed' = seed + 1
                /\ res' = Response("store-session", sessionId, 200,
                              [NoBody EXCEPT !.success = TRUE, !.hasMessage = TRUE])
    /\ UNCHANGED <<selfieRecords, statusRecords, dataStorage, objectCtor, now, savedLog, polled>>

\* session.expires_at && new Date(session.expires_at).getTime() < Date.now()
SessionExpired(session, t) == session.expires_at # NoNum /\ session.expires_at < t

GetSession(session_id) ==
    /\ Spend
    /\ IF Falsy(session_id)
       THEN /\ res' = BadRequest("get-session", session_id)
            /\ UNCHANGED sessionStorage
       ELSE IF ~HasProp(sessionStorage, session_id)
       THEN /\ res' = Response("get-session", session_id, 200,
                          [NoBody EXCEPT !.hasMessage = TRUE])
            /\ UNCHANGED sessionStorage
       ELSE IF SessionExpired(GetProp(sessionStorage, session_id, CtorAsSession), now)
       THEN /\ sessionStorage' = DeleteProps(sessionStorage, {session_id})
            /\ res' = Response("get-session", session_id, 200,
                          [NoBody EXCEPT !.hasMessage = TRUE])
       ELSE /\ res' = Response("get-session", session_id, 200,
                          [NoBody EXCEPT !.success = TRUE])
            /\ UNCHANGED sessionStorage
    /\ UNCHANGED <<selfieRecords, statusRecords, dataStorage, objectCtor, now, seed,
                   savedLog, polled>>

BlsSession(session_id) ==
    /\ Spend
    /\ IF Falsy(session_id)
       THEN res' = BadRequestPage("bls-session", session_id)
       ELSE IF ~HasProp(sessionStorage, session_id)
       THEN res' = Response("bls-session", session_id, 200,
                       [NoBody EXCEPT !.page = "not_found"])
       ELSE res' = Response("bls-session", session_id, 200,
                       [NoBody EXCEPT !.page = "session"])
    /\ UNCHANGED <<stores, objectCtor, now, seed, savedLog, polled>>

----------------------------------------------------------------------------
(* POST /api/encrypt, GET /api/debug-encrypt, and the codec on its own *)

Encrypt(data, iv) ==
    /\ Spend
    /\ IF data = Null \/ data = <<>>
       THEN res' = BadRequest("encrypt", IF data = Null THEN Undefined ELSE Empty)
       ELSE IF encryptData(data, iv, ENCRYPTION_KEY) = Thrown
       THEN res' = Caught("encrypt", Str("<number>"))
       ELSE res' = Response("encrypt", Str("<text>"), 200,
                       [NoBody EXCEPT !.success = TRUE, !.text = data, !.iv = iv,
                                      !.encrypted = encryptData(data, iv, ENCRYPTION_KEY)])
    /\ UNCHANGED <<stores, objectCtor, now, seed, savedLog, polled>>

DebugEncrypt(iv) ==
    /\ Spend
    /\ LET enc == encryptData(DebugPlain, iv, ENCRYPTION_KEY)
           dec == decryptData(enc, ENCRYPTION_KEY)
       IN  res' = Response("debug-encrypt", Undefined, 200,
                      [NoBody EXCEPT !.success = TRUE, !.text = DebugPlain, !.iv = iv,
                                     !.encrypted = enc, !.decrypted = dec,
                                     !.encryption_works = (DebugPlain = dec)])
    /\ UNCHANGED <<stores, objectCtor, now, seed, savedLog, polled>>

\* decryptData(encryptData(text)), as any caller of the two helpers gets it
RoundTrip(text, iv) ==
    /\ Spend
    /\ LET enc == encryptData(text, iv, ENCRYPTION_KEY)
       IN  res' = Response("round-trip", Undefined, 200,
                      [NoBody EXCEPT !.text = text, !.iv = iv, !.encrypted = enc,
                                     !.decrypted = decryptData(enc, ENCRYPTION_KEY)])
    /\ UNCHANGED <<stores, objectCtor, now, seed, savedLog, polled>>

\* the endpoints that read a JSON body
PostOps == {"encrypt", "store-data", "save-selfie", "store-session",
            "store-liveness-data"}

\* A POST whose body is not JSON: bodyParser.json() raises, no handler runs
\* and the error middleware answers
MalformedBody(op) ==
    /\ Spend
    /\ res' = ErrorMiddleware(op, Undefined, NODE_ENV)
    /\ UNCHANGED <<stores, objectCtor, now, seed, savedLog, polled>>

\* decryptData(b64), as any caller of the helper gets it
Decrypt(b64) ==
    /\ Spend
    /\ res' = Response("decrypt", Undefined, 200,
                   [NoBody EXCEPT !.encrypted = b64,
                                  !.decrypted = decryptData(b64, ENCRYPTION_KEY)])
    /\ UNCHANGED <<stores, objectCtor, now, seed, savedLog, polled>>

----------------------------------------------------------------------------
(* The clock *)

\* Date.now() moves on between requests; no request is being answered
TickTo(t) ==
    /\ Spend
    /\ t > now
    /\ now' = t
    /\ res' = NoResponse
    /\ UNCHANGED <<stores, objectCtor, seed, savedLog, polled>>

----------------------------------------------------------------------------
(* The program *)

Limits(saves, pushed, data, ops) ==
    [saves |-> saves, pushed |-> pushed, data |-> data, ops |-> ops, polls |-> MaxPolls]

\* the same bounds with another bound on the polls of a code
WithPolls(l, polls) ==
    [saves |-> l.saves, pushed |-> l.pushed, data |-> l.data, ops |-> l.ops,
     polls |-> polls]

InitEnv(l, passphrase, env) ==
    /\ selfieRecords = <<>>
    /\ statusRecords = <<>>
    /\ dataStorage = <<>>
    /\ sessionStorage = <<>>
    /\ objectCtor = ObjectCtorInit
    /\ now = 0
    /\ seed = 0
    /\ res = NoResponse
    /\ savedLog = <<>>
    /\ polled = <<>>
    /\ ENCRYPTION_KEY = passphrase
    /\ NODE_ENV = env
    /\ limit = l

\* NODE_ENV is not set unless the operator sets it
InitWith(l, passphrase) == InitEnv(l, passphrase, UNDEF)

\* the identifiers a client can have learnt from the server's state
KnownIds ==
    Params \cup DOMAIN dataStorage \cup DOMAIN sessionStorage
           \cup {selfieRecords[i].id : i \in 1..Len(selfieRecords)}
           \cup {selfieRecords[i].selfie_code : i \in 1..Len(selfieRecords)}

(* Every endpoint, interleaved, for a bounded number of requests *)

Init == InitWith(Limits(MaxSaves, MaxPushed, MaxData, MaxOps), DefaultKey)

Next ==
    \/ \E c \in Params, e \in {Undefined, Empty, Str("Y")} : SaveSelfie(c, e)
    \/ \E c \in Params : CheckStatus(c)
    \/ \E c \in Params : GetResult(c)
    \/ \E d \in {Undefined, Empty, Str("blob")}, c \in {Undefined, Str("a")} : StoreData(d, c)
    \/ \E f \in {Undefined, Str("form")} : StoreLivenessData(f)
    \/ \E d \in Params : OpenBls(d)
    \/ \E id \in KnownIds : CheckSelfieStatus(id)
    \/ \E id \in KnownIds : DirectLiveness(id)
    \/ \E d \in {Undefined, Str("session")} : StoreSession(d)
    \/ \E id \in KnownIds : GetSession(id)
    \/ \E id \in KnownIds : BlsSession(id)
    \/ \E t \in LateTimes : TickTo(t)
    \/ \E d \in {Null, <<>>, DebugPlain} : Encrypt(d, ZeroIv)

Spec == Init /\ [][Next]_vars

(* The status lifecycle: save-selfie, check-status, get-result *)

InitStatus == InitWith(Limits(MaxSaves, MaxPushed, MaxData, Unbounded), DefaultKey)

NextStatus ==
    \/ \E c \in Codes, e \in {Empty, Str("Y")} : SaveSelfie(c, e)
    \/ \E c \in Params : CheckStatus(c)
    \/ \E c \in Params : GetResult(c)

SpecStatus == InitStatus /\ [][NextStatus]_vars

(* The data store and the elapsed-time heuristic *)

InitData == InitWith(Limits(MaxSaves, MaxPushed, MaxData, MaxDataOps), DefaultKey)

NextData ==
    \/ \E d \in {Undefined, Empty, Str("blob")}, c \in {Undefined, Str("a")} : StoreData(d, c)
    \/ \E f \in {Undefined, Str("form")} : StoreLivenessData(f)
    \/ \E d \in Params : OpenBls(d)
    \/ \E id \in KnownIds : CheckSelfieStatus(id)
    \/ \E id \in KnownIds : DirectLiveness(id)
    \/ \E e \in {Undefined, Str("Y")} : SaveSelfie(Str("a"), e)
    \/ \E t \in DataTimes : TickTo(t)

SpecData == InitData /\ [][NextData]_vars

(* The session store *)

InitSession == InitWith(Limits(MaxSaves, MaxPushed, MaxData, Unbounded), DefaultKey)

NextSession ==
    \/ \E d \in {Undefined, Str("session")} : StoreSession(d)
    \/ \E id \in KnownIds : GetSession(id)
    \/ \E id \in KnownIds : BlsSession(id)
    \/ \E t \in SessionTimes : TickTo(t)

SpecSession == InitSession /\ [][NextSession]_vars

(* The codec, for every configured passphrase *)

InitCodec ==
    \E k \in Passphrases :
        InitWith(Limits(MaxSaves, MaxPushed, MaxData, Unbounded), k)

NextCodec ==
    \/ \E d \in Texts \cup {Null}, iv \in IVs : Encrypt(d, iv)
    \/ \E iv \in IVs : DebugEncrypt(iv)
    \/ \E t \in Texts, iv \in IVs : RoundTrip(t, iv)

SpecCodec == InitCodec /\ [][NextCodec]_vars

(* decryptData on its own, for every configured passphrase *)

NextDecrypt ==
    \/ \E b \in Blobs : Decrypt(b)

SpecDecrypt == InitCodec /\ [][NextDecrypt]_vars

(* Requests that raise an exception, in every mode of the process *)

InitErrors ==
    \E k \in Passphrases, env \in {UNDEF, "development", "production"} :
        InitEnv(Limits(MaxSaves, MaxPushed, MaxData, Unbounded), k, env)

NextErrors ==
    \/ \E d \in Texts \cup {Null, Number5}, iv \in IVs : Encrypt(d, iv)
    \/ \E op \in PostOps : MalformedBody(op)

SpecErrors == InitErrors /\ [][NextErrors]_vars

(* The record cap, reached by save-selfie alone *)

InitSaveCap ==
    InitWith(Limits(MaxRecords + CapSlack, MaxPushed, MaxData, Unbounded), DefaultKey)

NextSaveCap ==
    \/ \E e \in {Undefined, Str("Y")} : SaveSelfie(Str("a"), e)
    \/ GetResult(Str("a"))

SpecSaveCap == InitSaveCap /\ [][NextSaveCap]_vars

(* One code saved first and polled while later saves of another code push  *)
(* its record out of the list                                               *)

InitEvict ==
    InitWith(WithPolls(Limits(MaxRecords + CapSlack, MaxPushed, MaxData, Unbounded),
                       EvictPolls),
             DefaultKey)

NextEvict ==
    \/ SaveSelfie(IF savedLog = <<>> THEN Str("a") ELSE Str("b"), Str("Y"))
    \/ CheckStatus(Str("a"))

SpecEvict == InitEvict /\ [][NextEvict]_vars

(* The record list under repeated status checks of one stored entry *)

InitPushCap ==
    InitWith(Limits(MaxSaves, MaxRecords + CapSlack, 1, Unbounded), DefaultKey)

NextPushCap ==
    \/ StoreData(Str("blob"), Undefined)
    \/ TickTo(3)
    \/ \E id \in DOMAIN dataStorage : CheckSelfieStatus(id)

SpecPushCap == InitPushCap /\ [][NextPushCap]_vars

(* The poll ladder of check-status while the clock runs and another code is *)
(* saved and polled                                                         *)

InitLadder == InitWith(Limits(MaxSaves, MaxPushed, MaxData, Unbounded), DefaultKey)

NextLadder ==
    \/ \E c \in Codes : SaveSelfie(c, Str("Y"))
    \/ \E c \in Codes : CheckStatus(c)
    \/ \E t \in LadderTimes : TickTo(t)

SpecLadder == InitLadder /\ [][NextLadder]_vars

(* GET /selfie/link and the completion request of the page it serves *)

\* the handler: 400 without an id, the closing page when a result_code comes
\* with it, else the verification page holding the id as encId; decryptData
\* answers a string for every id, so rendering that page does not throw
SelfieLink(id, result_code) ==
    /\ Spend
    /\ IF Falsy(id)
       THEN res' = [BadRequestPage("selfie-link", id) EXCEPT !.arg2 = result_code]
       ELSE IF ~Falsy(result_code)
       THEN res' = [Response("selfie-link", id, 200, [NoBody EXCEPT !.page = "completed"])
                    EXCEPT !.arg2 = result_code]
       ELSE res' = [Response("selfie-link", id, 200, [NoBody EXCEPT !.page = "verification"])
                    EXCEPT !.arg2 = result_code]
    /\ UNCHANGED <<stores, objectCtor, now, seed, savedLog, polled>>

\* completeAndSend of the verification page: POST /api/save-selfie with
\* {selfie_code: encId, result_code, status: 'completed'}, a body without
\* encrypted_code
CompleteAndSend ==
    /\ res.op = "selfie-link"
    /\ res.body.page = "verification"
    /\ SaveSelfie(res.arg, Undefined)

(* The verification page opened for a code, next to saves and polls of it *)

InitLink == InitWith(Limits(MaxSaves, MaxPushed, MaxData, Unbounded), DefaultKey)

NextLink ==
    \/ \E id \in Params, result_code \in {Undefined, Str("R")} : SelfieLink(id, result_code)
    \/ CompleteAndSend
    \/ SaveSelfie(Str("a"), Str("Y"))
    \/ CheckStatus(Str("a"))

SpecLink == InitLink /\ [][NextLink]_vars

(* One client saving, polling and fetching the result of its code, long    *)
(* after the ladder has ended, while another code is polled                 *)

InitPoll ==
    InitWith(WithPolls(Limits(MaxSaves, MaxPushed, MaxData, Unbounded), MaxLongPolls),
             DefaultKey)

NextPoll ==
    \/ SaveSelfie(Str("a"), Str("Y"))
    \/ \E c \in Params : CheckStatus(c)
    \/ \E c \in Params : GetResult(c)

SpecPoll == InitPoll /\ [][NextPoll]_vars

(* The page of one code polling check-status on its timer: the poll of the *)
(* code is taken again and again as long as the server answers it           *)

InitLive ==
    InitWith(WithPolls(Limits(MaxSaves, MaxPushed, MaxData, Unbounded), MaxLongPolls),
             DefaultKey)

NextLive ==
    \/ SaveSelfie(Str("a"), Str("Y"))
    \/ CheckStatus(Str("a"))
    \/ \E c \in Params : GetResult(c)
    \/ \E t \in LadderTimes : TickTo(t)

SpecLive == InitLive /\ [][NextLive]_vars /\ WF_vars(CheckStatus(Str("a")))

----------------------------------------------------------------------------
(* Properties *)

\* the codes for which a save-selfie has succeeded
SavedCodes == {savedLog[i].selfie_code : i \in 1..Len(savedLog)}

StatusEnum == {"pending", "processing", "ready", "completed", "failed"}

\* RESULT_<alnum>_<digits>
IsResultCode(c) ==
    /\ c.prefix = "RESULT_"
    /\ \A i \in 1..Len(c.rand) : IsAlnum(c.rand[i])
    /\ c.ts \in Nat

\* the last n elements of a sequence
LastN(seq, n) == SubSeq(seq, Len(seq) - n + 1, Len(seq))

Min(a, b) == IF a < b THEN a ELSE b

\* a request field that is absent or the empty string
MissingOrEmpty(x) == x \in {Undefined, Empty}

\* C1: a save-selfie with a non-empty selfie_code and encrypted_code answers
\* success:true with a record id, and every check-status of a saved code,
\* after any number of polls, answers a status of the enumeration.
C1_SavedCodeHasDefinedStatus ==
    /\ (res.op = "save-selfie" /\ ~MissingOrEmpty(res.arg) /\ ~MissingOrEmpty(res.arg2))
          => /\ res.http = 200
             /\ res.body.success
             /\ res.body.record_id.prefix = "FS_"
    /\ (res.op = "check-status" /\ res.arg \in SavedCodes)
          => /\ res.body.success
             /\ res.body.status \in StatusEnum

C1_Witness ==
    /\ res.op = "check-status"
    /\ res.arg \in SavedCodes
    /\ res.body.attempts >= 9
    /\ res.body.status = "failed"

\* C2: check-status of a non-empty code that no save-selfie has stored answers
\* {success:false, status:"not_found"} and changes neither statusRecords nor
\* selfieRecords.
C2_UnknownCodeNotFound ==
    [][(res'.op = "check-status" /\ ~MissingOrEmpty(res'.arg) /\ res'.arg \notin SavedCodes)
          => /\ ~res'.body.success
             /\ res'.body.status = "not_found"
             /\ UNCHANGED <<statusRecords, selfieRecords>>]_vars

\* C3: get-result of a saved code answers success:false with the stored,
\* non-completed status while the stored status is not completed, and
\* success:true with a result code RESULT_<alnum>_<digits> while it is.
C3_ResultOnlyWhenCompleted ==
    (res.op = "get-result" /\ res.arg \in SavedCodes)
       => LET st == statusRecords[res.arg]
          IN  IF st.status # "completed"
              THEN /\ ~res.body.success
                   /\ res.body.current_status = st.status
                   /\ res.body.current_status # "completed"
              ELSE /\ res.body.success
                   /\ res.body.result_code # Undefined
                   /\ IsResultCode(res.body.result_code)

C3_Witness ==
    /\ res.op = "get-result"
    /\ res.arg \in SavedCodes
    /\ res.body.success
    /\ IsResultCode(res.body.result_code)

\* C4: after n successful save-selfie calls and no other record-creating
\* operation, selfieRecords is the last min(n, 1000) saved records in
\* insertion order.
C4_KeepsLastThousand ==
    selfieRecords = LastN(savedLog, Min(Len(savedLog), MaxRecords))

C4_Witness ==
    /\ Len(savedLog) = MaxRecords + 1
    /\ Len(selfieRecords) = MaxRecords
    /\ selfieRecords[1] = savedLog[2]
    /\ selfieRecords[MaxRecords] = savedLog[MaxRecords + 1]

\* C5: in every reachable state selfieRecords holds at most 1000 records.
C5_AtMostThousandRecords == Len(selfieRecords) <= MaxRecords

\* C6: right after a write to dataStorage (store-data, store-liveness-data,
\* open-bls with a data parameter) no entry older than one hour is in it.
C6_NoStaleDataAfterWrite ==
    (res.op \in {"store-data", "store-liveness-data", "open-bls"}
        /\ res.http = 200 /\ ~MissingOrEmpty(res.arg))
       => \A k \in DOMAIN dataStorage : now - dataStorage[k].stored_at <= OneHour

\* C7: a session past its expires_at is not served by get-session or
\* bls-session once a store-session has happened after it expired.
C7_ExpiredSessionNotServed ==
    (res.op \in {"get-session", "bls-session"}
        /\ (res.body.success \/ res.body.page = "session")
        /\ res.arg \in DOMAIN sessionStorage)
       => ~ /\ sessionStorage[res.arg].expires_at < now
            /\ \E k \in DOMAIN sessionStorage :
                  sessionStorage[k].stored_at > sessionStorage[res.arg].expires_at

\* C8: decryptData(encryptData(s)) = s for every printable text s, and
\* debug-encrypt reports encryption_works = true.
C8_RoundTrip ==
    /\ res.op \in {"round-trip", "debug-encrypt"} => res.body.decrypted = res.body.text
    /\ res.op = "debug-encrypt" => res.body.encryption_works

\* C9: two encryptions of the same text, each under its own freshly drawn IV,
\* return different blobs.
C9_FreshIvFreshBlob ==
    [][(/\ res.op \in {"encrypt", "round-trip", "debug-encrypt"}
        /\ res'.op \in {"encrypt", "round-trip", "debug-encrypt"}
        /\ res.http = 200 /\ res'.http = 200
        /\ res.body.text = res'.body.text
        /\ res.body.iv # res'.body.iv)
          => res.body.encrypted # res'.body.encrypted]_vars

\* C10: a JSON endpoint called with a required field missing or empty answers
\* HTTP 400 with {success:false, message} and changes none of the stores.
JsonOps == {"encrypt", "store-data", "save-selfie", "check-status", "get-result",
            "check-selfie-status", "store-session", "get-session"}

C10_MissingFieldIs400 ==
    [][(/\ res'.op \in JsonOps
        /\ MissingOrEmpty(res'.arg) \/ (res'.op = "save-selfie" /\ MissingOrEmpty(res'.arg2)))
          => /\ res'.http = 400
             /\ ~res'.body.success
             /\ res'.body.hasMessage
             /\ UNCHANGED stores]_vars

C10_Witness ==
    /\ res.op = "save-selfie"
    /\ res.http = 400
    /\ ~MissingOrEmpty(res.arg)
    /\ MissingOrEmpty(res.arg2)
    /\ Len(selfieRecords) > 0
    /\ DOMAIN dataStorage # {}

\* the records a check-selfie-status of id can resolve to
RecordsNamed(id) ==
    {i \in 1..Len(selfieRecords) :
        selfieRecords[i].id = id \/ selfieRecords[i].selfie_code = id}

\* C11: get-result, check-selfie-status or get-session of a non-empty code or
\* id that the store it looks in does not hold answers HTTP 200 with
\* success:false and changes none of the stores.
C11_UnknownLookupNotFound ==
    [][(/\ ~MissingOrEmpty(res'.arg)
        /\ \/ res'.op = "get-result" /\ res'.arg \notin DOMAIN statusRecords
           \/ res'.op = "check-selfie-status" /\ res'.arg \notin DOMAIN dataStorage
                                              /\ RecordsNamed(res'.arg) = {}
           \/ res'.op = "get-session" /\ res'.arg \notin DOMAIN sessionStorage)
          => /\ res'.http = 200
             /\ ~res'.body.success
             /\ UNCHANGED stores]_vars

\* the status the claim gives the n-th poll
NthPollStatus(n) ==
    IF n \in 1..2 THEN "processing"
    ELSE IF n \in 3..5 THEN "ready"
    ELSE IF n \in 6..8 THEN "completed"
    ELSE "failed"

\* C12: the n-th check-status poll of a saved code since its last save-selfie
\* answers processing for n in 1..2, ready for 3..5, completed for 6..8 and
\* failed from 9 on, whatever the clock shows and whatever polls other codes
\* have had.
C12_StatusIsFunctionOfPollCount ==
    (res.op = "check-status" /\ res.body.success /\ res.arg \in SavedCodes)
       => /\ polled[res.arg] >= 1
          /\ res.body.status = NthPollStatus(polled[res.arg])

C12_Witness ==
    /\ res.op = "check-status"
    /\ res.arg \in SavedCodes
    /\ polled[res.arg] = 9
    /\ res.body.status = "failed"
    /\ now > statusRecords[res.arg].created_at
    /\ \E c \in SavedCodes \ {res.arg} : polled[c] \in 1..8

\* the record selfieRecords.find hands back for id: the first one named so
FirstNamed(id) == CHOOSE i \in RecordsNamed(id) : \A j \in RecordsNamed(id) : i <= j

\* the status the claim gives an entry created m minutes ago
ElapsedStatus(m) ==
    IF m < 1 THEN "not_started"
    ELSE IF m < 2 THEN "processing"
    ELSE IF m < 3 THEN "pending"
    ELSE "completed"

\* the result codes the records carry
RecordCodes == {selfieRecords[i].result_code : i \in 1..Len(selfieRecords)}

\* what check-selfie-status must answer for an entry created at instant since
AnswersByAge(since) ==
    /\ res'.http = 200
    /\ res'.body.success
    /\ res'.body.status = ElapsedStatus(now - since)
    /\ IF now - since >= 3
       THEN /\ res'.body.result_code.prefix = "RESULT_"
            /\ res'.body.result_code \notin RecordCodes
       ELSE res'.body.result_code = Undefined

Decodable(b64, passphrase) ==
    LET buf == Base64Decode(b64)
        key == DeriveKey(passphrase)
    IN  /\ Len(buf) >= 32
        /\ Len(key) = 32
        /\ (Len(buf) - 16) % 16 = 0
        /\ Pkcs7Ok(CbcDecrypt(key, SubSeq(buf, 1, 16), SubSeq(buf, 17, Len(buf))))

\* C15: decryptData never throws; it returns null for a missing or empty
\* input, and the input itself for every non-empty input that cannot be
\* decoded (payload under 32 bytes, wrong key, bad padding).
C15_DecryptNeverThrows ==
    res.op = "decrypt"
       => /\ res.body.decrypted # Thrown
          /\ res.body.encrypted \in {Null, <<>>} => res.body.decrypted = Null
          /\ (res.body.encrypted \notin {Null, <<>>}
                /\ ~Decodable(res.body.encrypted, ENCRYPTION_KEY))
                => res.body.decrypted = res.body.encrypted

\* a blob made under another passphrase, refused under a well-formed key
C15_Witness ==
    /\ res.op = "decrypt"
    /\ Len(Base64Decode(res.body.encrypted)) >= 32
    /\ Len(DeriveKey(ENCRYPTION_KEY)) = 32
    /\ \E k \in Passphrases \ {ENCRYPTION_KEY} :
          res.body.encrypted = encryptData(<<65>>, ZeroIv, k) /\ Len(DeriveKey(k)) = 32
    /\ res.body.decrypted = res.body.encrypted

\* C16: a request during which an exception reaches a catch block or the
\* error middleware is answered with HTTP 500, and with NODE_ENV = production
\* the body does not carry the exception's message.
C16_ExceptionIs500Redacted ==
    res.raised
       => /\ res.http = 500
          /\ NODE_ENV = "production" => res.body.error # ExceptionMessage

\* C17: once check-selfie-status has answered completed with a result code
\* for an id, the next check-selfie-status of that id answers completed with
\* the same result code.
C17_CompletionIsTerminal ==
    [][(/\ res.op = "check-selfie-status"
        /\ res.body.status = "completed"
        /\ res'.op = "check-selfie-status"
        /\ res'.arg = res.arg)
          => /\ res'.body.status = "completed"
             /\ res'.body.result_code = res.body.result_code]_vars

\* C18: after a successful check-status poll of a saved code, every record in
\* selfieRecords with that selfie_code has the status and the result code of
\* the code's entry in statusRecords.
C18_PollUpdatesRecord ==
    (res.op = "check-status" /\ res.body.success /\ res.arg \in SavedCodes)
       => \A i \in 1..Len(selfieRecords) :
             selfieRecords[i].selfie_code = res.arg
                => /\ selfieRecords[i].status = statusRecords[res.arg].status
                   /\ selfieRecords[i].result_code = statusRecords[res.arg].result_code

\* C19: every record in selfieRecords has a status among pending,
\* processing, ready, completed and failed, and its status is completed
\* exactly when it carries a result code.
C19_RecordStatusWellFormed ==
    \A i \in 1..Len(selfieRecords) :
        /\ selfieRecords[i].status \in StatusEnum
        /\ selfieRecords[i].status = "completed" <=> selfieRecords[i].result_code # Undefined

\* a saved record completed by check-selfie-status next to one still pending
C19_Witness ==
    \E i, j \in 1..Len(selfieRecords) :
        /\ selfieRecords[i].source = "forbes_extension"
        /\ selfieRecords[i].status = "completed"
        /\ selfieRecords[i].result_code.prefix = "RESULT_"
        /\ selfieRecords[j].status = "pending"

\* C20: for every saved code the attempts counter equals the number of
\* check-status requests answered success:true for it since its last
\* save-selfie, and each such answer carries the next attempts value, so no
\* two of them carry the same one.
C20_NoPollLost ==
    /\ [](\A c \in SavedCodes : statusRecords[c].attempts = polled[c])
    /\ [][(res'.op = "check-status" /\ res'.body.success /\ res'.arg \in SavedCodes)
             => /\ res'.body.attempts = polled'[res'.arg]
                /\ polled'[res'.arg] = polled[res'.arg] + 1]_vars

\* the third poll of a code saved again after its first entry was completed
C20_Witness ==
    /\ res.op = "check-status"
    /\ res.body.attempts = 3
    /\ polled[res.arg] = 3
    /\ Len(savedLog) = 2
    /\ savedLog[1].selfie_code = res.arg
    /\ savedLog[2].selfie_code = res.arg
    /\ objectCtor.result_code = Undefined
    /\ seed = 3
    /\ now > 0

\* the place of a status in the order processing < ready < completed < failed
Rank(status) ==
    IF status = "processing" THEN 1
    ELSE IF status = "ready" THEN 2
    ELSE IF status = "completed" THEN 3
    ELSE IF status = "failed" THEN 4
    ELSE 0

\* this step is a successful save-selfie of code c
SavesCode(c) == res'.op = "save-selfie" /\ res'.http = 200 /\ res'.arg = c

\* C21: between two save-selfie calls of a code the status check-status
\* returns for it is the stored one, which never moves backwards in the order
\* processing < ready < completed < failed, and stays failed once it is failed.
C21_StatusNeverMovesBack ==
    [][/\ \A c \in DOMAIN statusRecords :
             ~SavesCode(c)
                => /\ Rank(statusRecords'[c].status) >= Rank(statusRecords[c].status)
                   /\ statusRecords[c].status = "failed"
                         => statusRecords'[c].status = "failed"
       /\ (res'.op = "check-status" /\ res'.body.success
              /\ res'.arg \in DOMAIN statusRecords')
             => res'.body.status = statusRecords'[res'.arg].status]_vars

\* a poll answered failed after an earlier poll had been answered failed
C21_Witness ==
    /\ res.op = "check-status"
    /\ res.arg \in SavedCodes
    /\ res.body.status = "failed"
    /\ res.body.attempts >= 10

\* the last answer is a successful check-status of code c with this status
Reported(c, status) ==
    /\ res.op = "check-status"
    /\ res.arg = c
    /\ res.body.success
    /\ res.body.status = status

\* the last answer is the n-th successful save-selfie of code c
JustSaved(c, n) ==
    /\ res.op = "save-selfie"
    /\ res.http = 200
    /\ res.arg = c
    /\ Len(savedLog) = n

\* C22: a saved code that keeps being polled through check-status and is not
\* saved again is eventually reported completed, and eventually every poll of
\* it is answered failed.
C22_PolledCodeCompletesThenFails ==
    /\ \A n \in 1..(MaxSaves + 1) :
          JustSaved(Str("a"), n)
             ~> (Reported(Str("a"), "completed") \/ Len(savedLog) > n)
    /\ \A n \in 1..(MaxSaves + 1) :
          JustSaved(Str("a"), n)
             ~> (Reported(Str("a"), "failed") \/ Len(savedLog) > n)
    /\ <>[](\A status \in StatusEnum :
               Reported(Str("a"), status) => status = "failed")

\* the code is reported failed after its result code was minted by the poll
\* that reported it completed
C22_Witness ==
    /\ Reported(Str("a"), "failed")
    /\ statusRecords[Str("a")].result_code # Undefined
    /\ polled[Str("a")] = MaxLongPolls

\* C23: no operation removes a status entry: once save-selfie has succeeded
\* for a code, check-status of it never answers not_found, also after the
\* record of the code has been evicted from selfieRecords by the cap.
C23_StatusEntryNeverExpires ==
    /\ []((res.op = "check-status" /\ res.arg \in SavedCodes)
            => (res.body.success /\ res.body.status # "not_found"))
    /\ [][DOMAIN statusRecords \subseteq DOMAIN statusRecords']_vars

\* the first code is answered while the full list holds no record of it
C23_Witness ==
    /\ res.op = "check-status"
    /\ res.arg = Str("a")
    /\ res.body.success
    /\ res.body.status = "processing"
    /\ Len(selfieRecords) = MaxRecords
    /\ RecordsNamed(Str("a")) = {}
    /\ savedLog[1].selfie_code = Str("a")

\* C24: the key derived from the configured ENCRYPTION_KEY passphrase is
\* exactly 32 bytes, so that the cipher construction of encryptData and
\* decryptData accepts it, whenever an encryption has been served.
C24_DerivedKeyIsThirtyTwoBytes ==
    res.op \in {"encrypt", "round-trip", "debug-encrypt"}
       => Len(DeriveKey(ENCRYPTION_KEY)) = KeyLength

\* C25: once check-status has answered completed with a result code for a
\* code (the entry of the code holds that result code), get-result of the code
\* answers success:true with that result code, whatever requests of other
\* clients came in between.
C25_ResultAvailableOnceCompleted ==
    (/\ res.op = "get-result"
     /\ res.arg \in DOMAIN statusRecords
     /\ statusRecords[res.arg].result_code # Undefined)
       => /\ res.body.success
          /\ res.body.result_code = statusRecords[res.arg].result_code

C27_GetResultIsPureRead ==
    [][res'.op = "get-result"
         => /\ statusRecords' = statusRecords
            /\ selfieRecords' = selfieRecords
            /\ dataStorage' = dataStorage
            /\ sessionStorage' = sessionStorage]_vars

\* get-result has refused a code whose entry went past completed
C27_Witness ==
    /\ res.op = "get-result"
    /\ res.arg \in SavedCodes
    /\ ~res.body.success
    /\ res.body.current_status = "failed"
    /\ statusRecords[res.arg].attempts >= 9

\* the records check-selfie-status has made of the dataStorage entry under key
\* k: they were not pushed by save-selfie and carry the entry's stored_at as
\* their created_at
RecordsFromEntry(k) ==
    {i \in 1..Len(selfieRecords) :
        /\ \A j \in 1..Len(savedLog) : savedLog[j].id # selfieRecords[i].id
        /\ selfieRecords[i].created_at = dataStorage[k].stored_at
        /\ selfieRecords[i].status = "completed"}

\* C28: however often check-selfie-status is called for a storage id after
\* its three minutes, selfieRecords holds at most one record made of that
\* dataStorage entry.
C28_OneRecordPerEntry ==
    \A k \in DOMAIN dataStorage : Cardinality(RecordsFromEntry(k)) <= 1

C30_CompletionRequestAccepted ==
    (/\ res.op = "save-selfie"
     /\ ~MissingOrEmpty(res.arg)
     /\ res.arg2 = Undefined)
       => /\ res.http = 200
          /\ res.body.success
          /\ \E i \in 1..Len(selfieRecords) : selfieRecords[i].selfie_code = res.arg

====
